---- MODULE Spec2Model ----
(***************************************************************************)
(* A model of the provisioning scripts of pgfox/aws_deployment.             *)
(*                                                                         *)
(* Every script is a fixed, hand-ordered sequence of control-plane calls.  *)
(* The model has one action per control-plane call site; the action        *)
(* contains the call, the control plane's answer and the script's local    *)
(* handling of that answer (the except clauses around the call).  The      *)
(* control plane (S3, EC2, IAM) is the only shared state.  A run of a      *)
(* script is a process with a program position; runs follow one another    *)
(* (mode "seq") or overlap (mode "conc").                                   *)
(***************************************************************************)
EXTENDS Integers, Sequences, FiniteSets, TLC

VARIABLES
    script,     \* the script the runs execute (the one the next run executes)
    mode,       \* "seq": runs follow one another; "conc": runs overlap
    args,       \* the command line: names, ids and (for the poller) attempts
    s3,         \* S3: buckets of this account, buckets of others, objects
    ec2,        \* EC2: key pairs, security groups, subnets, instances
    iam,        \* IAM: roles, inline policies, instance profiles
    keyFile,    \* the file at key_path on the local disk
    envOps,     \* number of changes made by actors other than the runs
    run         \* per run: position, locals, outcome, calls issued

vars == <<script, mode, args, s3, ec2, iam, keyFile, envOps, run>>

-----------------------------------------------------------------------------
(* Bounds of the model *)

\* number of runs of the script (successive in "seq", overlapping in "conc")
MaxRuns == 2

\* largest number of subnets tagged Tier=public the VPC may hold
MaxPublic == 2

\* largest value of the poller's `attempts` parameter that is explored
MaxAttempts == 3

\* largest number of changes by actors other than the runs
MaxEnv == 1

\* largest number of kinds of resource (bucket, key pair and key file, security
\* group, IAM entities) that are there before the first run
MaxPre == 1

Procs == 1..MaxRuns

\* the runs that overlap in "conc" mode: two runs of the same command
ConcProcs == {1, 2}

-----------------------------------------------------------------------------
(* Program constants *)

Scripts == {"airflow", "rest", "inst", "assign", "bucket"}

\* wait_for_instance_profile(iam_client, profile_name, attempts=2, delay=30)
DefaultAttempts == 2

SSH == 22
AirflowUI == 8080
HTTP == 80
HTTPS == 443

\* ingress rules each ensure_security_group authorizes
IntendedPorts(s) == IF s = "airflow" THEN {SSH, AirflowUI} ELSE {SSH, HTTP}

\* the fixed names each script's parse_args supplies
KeyName(s) ==
    CASE s = "airflow" -> "pf1-airflow-key"
      [] s = "rest"    -> "pf1-rest-key"
      [] OTHER         -> "pf1-ec2-key"

GroupName(s) ==
    CASE s = "airflow" -> "pf1-airflow-sg"
      [] s = "rest"    -> "pf1-rest-sg"
      [] OTHER         -> "pf1-public-sg"

RoleName(s) == IF s = "airflow" THEN "pf1-airflow-ec2-role" ELSE "pf1-ec2-s3-role"

\* airflow: profile_name = f"{role_name}-profile"; assign: --profile-name
ProfileName(s) ==
    IF s = "airflow" THEN "pf1-airflow-ec2-role-profile" ELSE "pf1-ec2-s3-profile"

\* policy_name = f"{role_name}-s3-access"
PolicyName(s) ==
    IF s = "airflow" THEN "pf1-airflow-ec2-role-s3-access" ELSE "pf1-ec2-s3-role-s3-access"

\* the values given on the command line (--bucket-name, --vpc-id, --instance-id)
BucketArg == "dag-bucket"

\* generate_bucket_name: f"deploy-dag-{uuid.uuid4().hex[:8]}"; the suffix is
\* random, two of its values stand for all of them
GeneratedNames == {"deploy-dag-0a", "deploy-dag-0b"}

\* the scripts that take a bucket name
BucketScripts == {"airflow", "assign", "bucket"}
VpcArg == "vpc-1"
InstanceArg == "i-1"

\* the ARN IAM assigns to an instance profile
ArnOf(profile) == <<"arn:instance-profile", profile>>

\* mode of a file newly created by write_text (0666 masked by the usual umask)
NewFileMode == "0644"

-----------------------------------------------------------------------------
(* Exceptions and the scripts' top-level handlers *)

\* which exception types the script's outermost except clause catches
Handles(s, etype) ==
    CASE s = "airflow" -> etype = "ClientError"
      [] s = "rest"    -> etype \in {"ClientError", "ValueError"}
      [] s = "inst"    -> etype = "ClientError"
      [] s = "assign"  -> etype \in {"ClientError", "RuntimeError"}
      [] s = "vpc"     -> FALSE
      [] OTHER         -> etype = "ClientError"

\* the pipeline step a program position belongs to
StepOf(pc) ==
    CASE pc \in {"head_bucket", "create_bucket", "create_bucket_script"} -> "bucket"
      [] pc = "put_object" -> "dag"
      [] pc \in {"create_key_pair", "key_write", "key_chmod"} -> "key"
      [] pc = "describe_subnets" -> "subnet"
      [] pc \in {"create_security_group", "authorize_ingress",
                 "describe_security_groups", "get_security_group_id"} -> "sg"
      [] pc \in {"create_role", "put_role_policy", "create_instance_profile",
                 "add_role"} -> "iam"
      [] pc \in {"wait_poll", "wait_sleep"} -> "wait"
      [] pc = "associate" -> "associate"
      [] pc = "launch" -> "launch"
      [] OTHER -> "none"

\* the rank of a step in its script's main
StepRank(step) ==
    CASE step = "bucket" -> 1
      [] step = "dag" -> 2
      [] step = "key" -> 3
      [] step = "subnet" -> 4
      [] step = "sg" -> 5
      [] step = "iam" -> 6
      [] step = "wait" -> 7
      [] step = "associate" -> 8
      [] step = "launch" -> 9
      [] OTHER -> 0

\* the step a control-plane call belongs to
CallStep(call) ==
    CASE call \in {"head_bucket", "create_bucket"} -> "bucket"
      [] call = "put_object" -> "dag"
      [] call = "create_key_pair" -> "key"
      [] call = "describe_subnets" -> "subnet"
      [] call \in {"create_security_group", "authorize_security_group_ingress",
                   "describe_security_groups"} -> "sg"
      [] call \in {"create_role", "put_role_policy", "create_instance_profile",
                   "add_role_to_instance_profile"} -> "iam"
      [] call \in {"get_instance_profile", "sleep"} -> "wait"
      [] call = "associate_iam_instance_profile" -> "associate"
      [] call = "create_instances" -> "launch"
      [] OTHER -> "none"

-----------------------------------------------------------------------------
(* The order of the steps in each script's main *)

First(s) ==
    CASE s = "airflow" -> "head_bucket"
      [] s = "rest"    -> "create_key_pair"
      [] s = "inst"    -> "create_key_pair"
      [] s = "assign"  -> "create_role"
      [] s = "vpc"     -> "vpc_create_vpc"
      [] OTHER         -> "create_bucket_script"

\* after create_key_pair returns
AfterKey(s) ==
    CASE s = "airflow" -> "create_security_group"
      [] s = "rest"    -> "describe_subnets"
      [] OTHER         -> IF args.subnet # "" THEN "get_security_group_id"
                                              ELSE "describe_subnets"

\* after find_public_subnet returns
AfterSubnet(s) == IF s = "rest" THEN "create_security_group" ELSE "get_security_group_id"

\* after ensure_security_group / get_security_group_id returns
AfterSG(s) == IF s = "airflow" THEN "create_role" ELSE "launch"

\* after ensure_iam_role_and_profile / ensure_role_and_profile returns
AfterIAM(s) == IF s = "airflow" THEN "launch" ELSE "wait_poll"

-----------------------------------------------------------------------------
(* Run records *)

\* the identities of a create_instances request
NoReq == [sg |-> 0, subnet |-> "", key |-> "", profile |-> ""]

\* the locals of create_vpc.py
NoNet ==
    [vpc_id |-> "", igw_id |-> 0, subnet_1_id |-> 0, subnet_2_id |-> 0,
     public_rt_id |-> 0, public_sg_id |-> 0, allocation_id |-> 0, nat_id |-> 0]

IdleRun ==
    [pc |-> "idle", st |-> "idle", exc |-> "none", code |-> "none",
     handled |-> FALSE, exit |-> -1, step |-> "none", calls |-> <<>>,
     injected |-> FALSE, material |-> 0, sg_id |-> 0, sgPath |-> "none",
     subnet_id |-> "", profile_name |-> "", profile_arn |-> <<>>,
     attempt |-> 0, sleeps |-> 0, req |-> NoReq, bucket_name |-> "", net |-> NoNet,
     head |-> "none", cmd |-> "none"]

Ended(r) == r.st \in {"ok", "failed", "killed"}

\* the run issues control-plane call `name`; f tells whether the control plane
\* rejects it for a reason of its own (permission, throttling, outage)
Called(r, name, f) ==
    [r EXCEPT !.calls = Append(@, name), !.injected = @ \/ (f = "fault")]

\* mutant: the outermost handler prints the diagnostic and returns normally
FailExitZero(r, etype, code) ==
    [r EXCEPT !.pc = "end", !.st = "failed", !.exc = etype, !.code = code,
              !.handled = Handles(script, etype), !.exit = 0, !.step = StepOf(r.pc)]

\* an exception leaves main: the script's outermost handler prints a diagnostic
\* and raises SystemExit(1), or the interpreter prints a traceback and exits 1
Fail(r, etype, code) ==
    [r EXCEPT !.pc = "end", !.st = "failed", !.exc = etype, !.code = code,
              !.handled = Handles(script, etype), !.exit = 1, !.step = StepOf(r.pc)]

\* main returns
Finish(r) == [r EXCEPT !.pc = "end", !.st = "ok", !.exit = 0]

Goto(r, pc) == [r EXCEPT !.pc = pc]

Faults == {"none", "fault"}

\* the answer of a call: the control plane's own rejection, or what its state says
Answer(f, natural) == IF f = "fault" THEN "InternalError" ELSE natural

At(p, pc) == run[p].st = "running" /\ run[p].pc = pc

-----------------------------------------------------------------------------
(* Initial states *)

EmptyS3 == [mine |-> {}, foreign |-> {}, objects |-> {}]

PreS3 ==
    { [mine |-> m, foreign |-> f, objects |-> {}] :
        <<m, f>> \in { <<{}, {}>>, <<{BucketArg}, {}>>, <<{}, {BucketArg}>> } }

SubnetIds == { <<"subnet", i>> : i \in 1..MaxPublic }

EmptyEC2 ==
    [keys |-> {}, groups |-> {}, public |-> {}, instances |-> {}, assoc |-> {},
     nextId |-> 1,
     vpcs |-> {}, igws |-> {}, subnets |-> {}, rts |-> {}, eips |-> {}, nats |-> {}]

\* a security group that was there before the first run: its id is 100
OldGroup(s, ports) == [id |-> 100, name |-> GroupName(s), vpc |-> VpcArg, ingress |-> ports]

PreGroups(s) ==
    IF s \in {"airflow", "rest"}
    THEN { {}, {OldGroup(s, {})}, {OldGroup(s, IntendedPorts(s))} }
    ELSE IF s = "inst" THEN { {}, {OldGroup(s, {SSH})} } ELSE { {} }

PreKeys(s) ==
    IF s \in {"airflow", "rest", "inst"}
    THEN { {}, {[name |-> KeyName(s), material |-> 99]} }
    ELSE { {} }

PrePublic(s) ==
    IF s \in {"rest", "inst"}
    THEN { { <<"subnet", i>> : i \in 1..n } : n \in 0..MaxPublic }
    ELSE { {} }

PreEC2(s) ==
    { [EmptyEC2 EXCEPT !.keys = k, !.groups = g, !.public = pub] :
        k \in PreKeys(s), g \in PreGroups(s), pub \in PrePublic(s) }

EmptyIAM == [roles |-> {}, policies |-> {}, profiles |-> {}, attached |-> {}, visible |-> {}]

\* IAM before the first run: nothing; or the profile without a role; or the
\* profile with some other role attached
PreIAM(s) ==
    IF s \in {"airflow", "assign"}
    THEN { EmptyIAM,
           [EmptyIAM EXCEPT !.profiles = {ProfileName(s)}, !.visible = {ProfileName(s)}],
           [EmptyIAM EXCEPT !.roles = {"other-role"},
                            !.profiles = {ProfileName(s)}, !.visible = {ProfileName(s)},
                            !.attached = {[profile |-> ProfileName(s), role |-> "other-role"]}] }
    ELSE { EmptyIAM }

NoFile == [exists |-> FALSE, content |-> 0, mode |-> "none"]

PreFiles(s) ==
    IF s \in {"airflow", "rest", "inst"}
    THEN { NoFile, [exists |-> TRUE, content |-> 99, mode |-> "0600"] }
    ELSE { NoFile }

PreSubnetArg(s) ==
    CASE s = "airflow" -> {"subnet-given"}
      [] s = "inst"    -> {"", "subnet-given"}
      [] OTHER         -> {""}

\* how many kinds of resource are there before the first run
PreKinds ==
    (IF s3 # EmptyS3 THEN 1 ELSE 0)
    + (IF ec2.keys # {} \/ keyFile.exists THEN 1 ELSE 0)
    + (IF ec2.groups # {} THEN 1 ELSE 0)
    + (IF iam # EmptyIAM THEN 1 ELSE 0)

InitCommon ==
    /\ script \in Scripts
    /\ args \in { [subnet |-> sn, attempts |-> DefaultAttempts, bucket |-> BucketArg] :
                    sn \in PreSubnetArg(script) }
    /\ s3 \in (IF script \in {"airflow", "bucket"} THEN PreS3 ELSE {EmptyS3})
    /\ ec2 \in PreEC2(script)
    /\ iam \in PreIAM(script)
    /\ keyFile \in PreFiles(script)
    /\ envOps = 0
    /\ run = [p \in Procs |-> IdleRun]
    /\ PreKinds <= MaxPre

Init == mode = "seq" /\ InitCommon

InitConc == mode = "conc" /\ InitCommon

-----------------------------------------------------------------------------
(* Starting and interrupting a run *)

\* bucket_name = args.bucket_name or generate_bucket_name()  (deploy_ec2_airflow.py);
\* the other scripts use the name they were given
BucketNameChoices ==
    IF script \notin BucketScripts THEN {""}
    ELSE IF script = "airflow" /\ args.bucket = "" THEN GeneratedNames
    ELSE {args.bucket}

\* python <script> ... : main starts; in "seq" mode only after the run before
\* it has ended, in "conc" mode at any time
Start(p) ==
    /\ run[p].st = "idle"
    /\ mode = "seq" => \A q \in Procs : q < p => Ended(run[q])
    /\ mode = "conc" => p \in ConcProcs
    /\ \E name \in BucketNameChoices :
        run' = [run EXCEPT ![p] = [@ EXCEPT !.pc = First(script), !.st = "running",
                                            !.bucket_name = name, !.cmd = script]]
    /\ UNCHANGED <<script, mode, args, s3, ec2, iam, keyFile, envOps>>

\* the process is terminated between two of its calls
Interrupt(p) ==
    /\ run[p].st = "running"
    /\ run' = [run EXCEPT ![p] = [@ EXCEPT !.pc = "end", !.st = "killed",
                                           !.step = StepOf(run[p].pc)]]
    /\ UNCHANGED <<script, mode, args, s3, ec2, iam, keyFile, envOps>>

-----------------------------------------------------------------------------
(* S3 *)

\* create_bucket's answer
CreateBucketAnswer(name) ==
    IF name \in s3.mine THEN "BucketAlreadyOwnedByYou"
    ELSE IF name \in s3.foreign THEN "BucketAlreadyExists"
    ELSE "ok"

\* head_bucket's answer
HeadBucketAnswer(name) ==
    IF name \in s3.mine THEN "ok"
    ELSE IF name \in s3.foreign THEN "403"
    ELSE "404"

\* create_bucket.py: create_bucket(bucket_name, region)
CreateBucketScript(p) ==
    /\ At(p, "create_bucket_script")
    /\ \E f \in Faults :
        LET ans == Answer(f, CreateBucketAnswer(run[p].bucket_name))
            r   == Called(run[p], "create_bucket", f)
        IN  IF ans = "ok"
            THEN /\ s3' = [s3 EXCEPT !.mine = @ \cup {run[p].bucket_name}]
                 /\ run' = [run EXCEPT ![p] = Finish(r)]
            ELSE \* except ClientError: print the error, raise SystemExit(1)
                 /\ s3' = s3
                 /\ run' = [run EXCEPT ![p] = [Fail(r, "ClientError", ans)
                                                  EXCEPT !.handled = TRUE]]
    /\ UNCHANGED <<script, mode, args, ec2, iam, keyFile, envOps>>

\* mutant: the access-denied answer is taken for a missing bucket as well
MissingBucketCodesAnd403 == {"404", "NoSuchBucket", "403"}

\* the error codes of head_bucket that ensure_bucket takes for a missing bucket:
\* `if error_code not in ("404", "NoSuchBucket"): raise`
MissingBucketCodes == {"404", "NoSuchBucket"}

\* ensure_bucket: s3_client.head_bucket(Bucket=bucket_name); r.head is the
\* outcome as ensure_bucket sees it ("ok" or the error code)
HeadBucket(p) ==
    /\ At(p, "head_bucket")
    /\ \E f \in Faults :
        LET ans == Answer(f, HeadBucketAnswer(run[p].bucket_name))
            r   == [Called(run[p], "head_bucket", f) EXCEPT !.head = ans]
        IN  run' = [run EXCEPT ![p] =
                IF ans = "ok" THEN Goto(r, "put_object")
                ELSE IF ans \in MissingBucketCodes THEN Goto(r, "create_bucket")
                ELSE Fail(r, "ClientError", ans)]
    /\ UNCHANGED <<script, mode, args, s3, ec2, iam, keyFile, envOps>>

\* ensure_bucket: s3_client.create_bucket(**params)
CreateBucket(p) ==
    /\ At(p, "create_bucket")
    /\ \E f \in Faults :
        LET ans == Answer(f, CreateBucketAnswer(run[p].bucket_name))
            r   == Called(run[p], "create_bucket", f)
        IN  IF ans = "ok"
            THEN /\ s3' = [s3 EXCEPT !.mine = @ \cup {run[p].bucket_name}]
                 /\ run' = [run EXCEPT ![p] = Goto(r, "put_object")]
            ELSE /\ s3' = s3
                 /\ run' = [run EXCEPT ![p] = Fail(r, "ClientError", ans)]
    /\ UNCHANGED <<script, mode, args, ec2, iam, keyFile, envOps>>

PutObjectAnswer(name) ==
    IF name \in s3.mine THEN "ok"
    ELSE IF name \in s3.foreign THEN "AccessDenied"
    ELSE "NoSuchBucket"

\* upload_sample_dag: s3_client.put_object(...)
PutObject(p) ==
    /\ At(p, "put_object")
    /\ \E f \in Faults :
        LET ans == Answer(f, PutObjectAnswer(run[p].bucket_name))
            r   == Called(run[p], "put_object", f)
        IN  IF ans = "ok"
            THEN /\ s3' = [s3 EXCEPT !.objects = @ \cup {run[p].bucket_name}]
                 /\ run' = [run EXCEPT ![p] = Goto(r, "create_key_pair")]
            ELSE /\ s3' = s3
                 /\ run' = [run EXCEPT ![p] = Fail(r, "ClientError", ans)]
    /\ UNCHANGED <<script, mode, args, ec2, iam, keyFile, envOps>>

-----------------------------------------------------------------------------
(* EC2 key pairs and the private key file *)

CreateKeyPairAnswer(name) ==
    IF \E k \in ec2.keys : k.name = name THEN "InvalidKeyPair.Duplicate" ELSE "ok"

\* what create_key_pair does with a ClientError that is not the duplicate code:
\* deploy_ec2_airflow.py and create_REST.py re-raise it; create_instance.py has
\* no raise, leaves the except clause and reads the unbound `response`
KeyPairError(r, ans) ==
    IF script = "inst"
    THEN Fail(r, "UnboundLocalError", "none")
    ELSE Fail(r, "ClientError", ans)

\* mutant: the except clause re-raises every ClientError, the duplicate included
KeyPairExceptNoReuse(r, ans) == Fail(r, "ClientError", ans)

\* mutant: on the duplicate code the routine goes on to write the key file
KeyPairExceptRewrite(r, ans) ==
    IF ans = "InvalidKeyPair.Duplicate"
    THEN Goto(r, "key_write")
    ELSE KeyPairError(r, ans)

\* the except clause of create_key_pair: the duplicate code means reuse and return
KeyPairExcept(r, ans) ==
    IF ans = "InvalidKeyPair.Duplicate"
    THEN Goto(r, AfterKey(script))
    ELSE KeyPairError(r, ans)

\* create_key_pair: ec2_client.create_key_pair(...) and its except clause
CreateKeyPair(p) ==
    /\ At(p, "create_key_pair")
    /\ \E f \in Faults :
        LET ans == Answer(f, CreateKeyPairAnswer(KeyName(script)))
            r   == Called(run[p], "create_key_pair", f)
        IN  IF ans = "ok"
            THEN /\ ec2' = [ec2 EXCEPT
                        !.keys = @ \cup {[name |-> KeyName(script), material |-> ec2.nextId]},
                        !.nextId = @ + 1]
                 /\ run' = [run EXCEPT ![p] =
                                Goto([r EXCEPT !.material = ec2.nextId], "key_write")]
            ELSE /\ ec2' = ec2
                 /\ run' = [run EXCEPT ![p] = KeyPairExcept(r, ans)]
    /\ UNCHANGED <<script, mode, args, s3, iam, keyFile, envOps>>

\* key_path.write_text(response["KeyMaterial"])
KeyWrite(p) ==
    /\ At(p, "key_write")
    /\ keyFile' = [exists |-> TRUE, content |-> run[p].material,
                   mode |-> IF keyFile.exists THEN keyFile.mode ELSE NewFileMode]
    /\ run' = [run EXCEPT ![p] = Goto(@, "key_chmod")]
    /\ UNCHANGED <<script, mode, args, s3, ec2, iam, envOps>>

\* mutant: the key file keeps the mode write_text gave it
ChmodModeUnchanged == keyFile.mode

\* the mode key_path.chmod(0o600) sets
ChmodMode == "0600"

\* key_path.chmod(0o600)
KeyChmod(p) ==
    /\ At(p, "key_chmod")
    /\ keyFile' = [keyFile EXCEPT !.mode = ChmodMode]
    /\ run' = [run EXCEPT ![p] = Goto(@, AfterKey(script))]
    /\ UNCHANGED <<script, mode, args, s3, ec2, iam, envOps>>

-----------------------------------------------------------------------------
(* Subnets *)

\* the subnets of the VPC that are tagged Tier=public: those that were there
\* before the first run and those that create_vpc.py created and tagged
PublicSubnets(vpc) ==
    ec2.public \cup
    { <<"subnet", sn.id>> : sn \in { x \in ec2.subnets : x.vpc = vpc /\ x.tier = "public" } }

\* mutant: the first subnet of the answer is taken, however many there are
FindPublicSubnetFirst(r, subnets) ==
    IF subnets = {} THEN Fail(r, "ValueError", "none")
    ELSE Goto([r EXCEPT !.subnet_id = CHOOSE x \in subnets : TRUE], AfterSubnet(script))

\* find_public_subnet after the call: `if not subnets: raise ValueError`,
\* `if len(subnets) > 1: raise ValueError`, `return subnets[0]["SubnetId"]`
FindPublicSubnet(r, subnets) ==
    IF subnets = {} THEN Fail(r, "ValueError", "none")
    ELSE IF Cardinality(subnets) > 1 THEN Fail(r, "ValueError", "none")
    ELSE Goto([r EXCEPT !.subnet_id = CHOOSE x \in subnets : TRUE], AfterSubnet(script))

\* find_public_subnet: describe_subnets filtered by vpc-id and tag:Tier=public
DescribeSubnets(p) ==
    /\ At(p, "describe_subnets")
    /\ \E f \in Faults :
        LET r == Called(run[p], "describe_subnets", f)
            subnets == PublicSubnets(VpcArg)
        IN  run' = [run EXCEPT ![p] =
                IF f = "fault" THEN Fail(r, "ClientError", "InternalError")
                ELSE FindPublicSubnet(r, subnets)]
    /\ UNCHANGED <<script, mode, args, s3, ec2, iam, keyFile, envOps>>

-----------------------------------------------------------------------------
(* Security groups *)

\* the groups describe_security_groups returns for the group-name and vpc-id filters
GroupsNamed(name, vpc) == { g \in ec2.groups : g.name = name /\ g.vpc = vpc }

\* the control plane enforces one group per name and VPC
CreateSecurityGroupAnswer(name, vpc) ==
    IF GroupsNamed(name, vpc) # {} THEN "InvalidGroup.Duplicate" ELSE "ok"

\* ensure_security_group: ec2_client.create_security_group(...) and the
\* classification of its ClientError by the except clause
CreateSecurityGroup(p) ==
    /\ At(p, "create_security_group")
    /\ \E f \in Faults :
        LET ans == Answer(f, CreateSecurityGroupAnswer(GroupName(script), VpcArg))
            r   == Called(run[p], "create_security_group", f)
        IN  IF ans = "ok"
            THEN /\ ec2' = [ec2 EXCEPT
                        !.groups = @ \cup {[id |-> ec2.nextId, name |-> GroupName(script),
                                            vpc |-> VpcArg, ingress |-> {}]},
                        !.nextId = @ + 1]
                 /\ run' = [run EXCEPT ![p] =
                        Goto([r EXCEPT !.sg_id = ec2.nextId, !.sgPath = "created"],
                             "authorize_ingress")]
            ELSE /\ ec2' = ec2
                 /\ run' = [run EXCEPT ![p] =
                        IF ans = "InvalidGroup.Duplicate"
                        THEN Goto(r, "describe_security_groups")
                        ELSE Fail(r, "ClientError", ans)]
    /\ UNCHANGED <<script, mode, args, s3, iam, keyFile, envOps>>

\* mutant: only the SSH rule is authorized
RulesAddedSSHOnly(g, s) == [g EXCEPT !.ingress = @ \cup {SSH}]

\* the group after authorize_security_group_ingress(GroupId=..., IpPermissions=[...])
RulesAdded(g, s) == [g EXCEPT !.ingress = @ \cup IntendedPorts(s)]

AuthorizeAnswer(gid) ==
    IF \E g \in ec2.groups : g.id = gid THEN "ok" ELSE "InvalidGroup.NotFound"

\* ensure_security_group: ec2_client.authorize_security_group_ingress(...), return group_id
AuthorizeIngress(p) ==
    /\ At(p, "authorize_ingress")
    /\ \E f \in Faults :
        LET ans == Answer(f, AuthorizeAnswer(run[p].sg_id))
            r   == Called(run[p], "authorize_security_group_ingress", f)
        IN  IF ans = "ok"
            THEN /\ ec2' = [ec2 EXCEPT !.groups =
                        { IF g.id = r.sg_id THEN RulesAdded(g, script) ELSE g : g \in @ }]
                 /\ run' = [run EXCEPT ![p] = Goto(r, AfterSG(script))]
            ELSE /\ ec2' = ec2
                 /\ run' = [run EXCEPT ![p] = Fail(r, "ClientError", ans)]
    /\ UNCHANGED <<script, mode, args, s3, iam, keyFile, envOps>>

\* mutant: the duplicate path returns without resolving the existing group's id
FirstGroupIdUnresolved(r, groups) ==
    Goto([r EXCEPT !.sg_id = 0, !.sgPath = "reused"], AfterSG(script))

\* mutant: the duplicate error is re-raised instead of being recovered by a lookup
FirstGroupIdReraise(r, groups) == Fail(r, "ClientError", "InvalidGroup.Duplicate")

\* mutant: the duplicate path returns an id that is not the found group's
FirstGroupIdFresh(r, groups) ==
    IF groups = {}
    THEN Fail(r, "IndexError", "none")
    ELSE Goto([r EXCEPT !.sg_id = ec2.nextId, !.sgPath = "reused"], AfterSG(script))

\* mutant: the duplicate path goes on to authorize the ingress rules on the
\* group it found
FirstGroupIdAuthorize(r, groups) ==
    IF groups = {}
    THEN Fail(r, "IndexError", "none")
    ELSE Goto([r EXCEPT !.sg_id = (CHOOSE g \in groups : TRUE).id, !.sgPath = "reused"],
              "authorize_ingress")

\* groups["SecurityGroups"][0]["GroupId"] on the duplicate path: an empty list
\* raises IndexError inside the except clause
FirstGroupId(r, groups) ==
    IF groups = {}
    THEN Fail(r, "IndexError", "none")
    ELSE Goto([r EXCEPT !.sg_id = (CHOOSE g \in groups : TRUE).id, !.sgPath = "reused"],
              AfterSG(script))

\* ensure_security_group, duplicate path: ec2_client.describe_security_groups(...)
DescribeSecurityGroups(p) ==
    /\ At(p, "describe_security_groups")
    /\ \E f \in Faults :
        LET r == Called(run[p], "describe_security_groups", f)
        IN  run' = [run EXCEPT ![p] =
                IF f = "fault" THEN Fail(r, "ClientError", "InternalError")
                ELSE FirstGroupId(r, GroupsNamed(GroupName(script), VpcArg))]
    /\ UNCHANGED <<script, mode, args, s3, ec2, iam, keyFile, envOps>>

\* create_instance.py: get_security_group_id
GetSecurityGroupId(p) ==
    /\ At(p, "get_security_group_id")
    /\ \E f \in Faults :
        LET r == Called(run[p], "describe_security_groups", f)
            groups == GroupsNamed(GroupName(script), VpcArg)
        IN  run' = [run EXCEPT ![p] =
                IF f = "fault" THEN Fail(r, "ClientError", "InternalError")
                ELSE IF groups = {} THEN Fail(r, "ValueError", "none")
                ELSE Goto([r EXCEPT !.sg_id = (CHOOSE g \in groups : TRUE).id,
                                    !.sgPath = "found"],
                          AfterSG(script))]
    /\ UNCHANGED <<script, mode, args, s3, ec2, iam, keyFile, envOps>>

\* another actor deletes the script's security group while no instance uses it
EnvDeleteGroup ==
    /\ envOps < MaxEnv
    /\ \E p \in Procs : ~Ended(run[p])
    /\ \E g \in GroupsNamed(GroupName(script), VpcArg) :
        /\ \A i \in ec2.instances : i.req.sg # g.id
        /\ ec2' = [ec2 EXCEPT !.groups = @ \ {g}]
    /\ envOps' = envOps + 1
    /\ UNCHANGED <<script, mode, args, s3, iam, keyFile, run>>

-----------------------------------------------------------------------------
(* IAM role and instance profile *)

CreateRoleAnswer(role) == IF role \in iam.roles THEN "EntityAlreadyExists" ELSE "ok"

\* iam_client.create_role(...) and its except clause
CreateRole(p) ==
    /\ At(p, "create_role")
    /\ \E f \in Faults :
        LET ans == Answer(f, CreateRoleAnswer(RoleName(script)))
            r   == Called(run[p], "create_role", f)
        IN  /\ iam' = IF ans = "ok" THEN [iam EXCEPT !.roles = @ \cup {RoleName(script)}]
                                    ELSE iam
            /\ run' = [run EXCEPT ![p] =
                    IF ans \in {"ok", "EntityAlreadyExists"}
                    THEN Goto(r, "put_role_policy")
                    ELSE Fail(r, "ClientError", ans)]
    /\ UNCHANGED <<script, mode, args, s3, ec2, keyFile, envOps>>

PutRolePolicyAnswer(role) == IF role \in iam.roles THEN "ok" ELSE "NoSuchEntity"

\* iam_client.put_role_policy(...): sets the role's inline policy of that name
PutRolePolicy(p) ==
    /\ At(p, "put_role_policy")
    /\ \E f \in Faults :
        LET ans == Answer(f, PutRolePolicyAnswer(RoleName(script)))
            r   == Called(run[p], "put_role_policy", f)
            pol == [role |-> RoleName(script), name |-> PolicyName(script),
                    bucket |-> run[p].bucket_name]
        IN  IF ans = "ok"
            THEN /\ iam' = [iam EXCEPT !.policies =
                        { q \in @ : ~(q.role = pol.role /\ q.name = pol.name) } \cup {pol}]
                 /\ run' = [run EXCEPT ![p] = Goto(r, "create_instance_profile")]
            ELSE /\ iam' = iam
                 /\ run' = [run EXCEPT ![p] = Fail(r, "ClientError", ans)]
    /\ UNCHANGED <<script, mode, args, s3, ec2, keyFile, envOps>>

CreateInstanceProfileAnswer(profile) ==
    IF profile \in iam.profiles THEN "EntityAlreadyExists" ELSE "ok"

\* iam_client.create_instance_profile(...) and its except clause; a new profile
\* is not visible to other calls at once
CreateInstanceProfile(p) ==
    /\ At(p, "create_instance_profile")
    /\ \E f \in Faults :
        LET ans == Answer(f, CreateInstanceProfileAnswer(ProfileName(script)))
            r   == Called(run[p], "create_instance_profile", f)
        IN  /\ iam' = IF ans = "ok"
                      THEN [iam EXCEPT !.profiles = @ \cup {ProfileName(script)}]
                      ELSE iam
            /\ run' = [run EXCEPT ![p] =
                    IF ans \in {"ok", "EntityAlreadyExists"}
                    THEN Goto(r, "add_role")
                    ELSE Fail(r, "ClientError", ans)]
    /\ UNCHANGED <<script, mode, args, s3, ec2, keyFile, envOps>>

\* an instance profile holds at most one role: a second add is rejected with
\* LimitExceeded
AddRoleAnswer(profile, role) ==
    IF profile \notin iam.profiles \/ role \notin iam.roles THEN "NoSuchEntity"
    ELSE IF \E a \in iam.attached : a.profile = profile THEN "LimitExceeded"
    ELSE "ok"

\* the error code the except clause around add_role_to_instance_profile lets pass:
\* assign_s3_role.py tests for LimitExceeded, deploy_ec2_airflow.py for
\* EntityAlreadyExists
ToleratedAddRoleCode(s) == IF s = "assign" THEN "LimitExceeded" ELSE "EntityAlreadyExists"

\* iam_client.add_role_to_instance_profile(...), its except clause, return profile_name
AddRole(p) ==
    /\ At(p, "add_role")
    /\ \E f \in Faults :
        LET ans == Answer(f, AddRoleAnswer(ProfileName(script), RoleName(script)))
            r   == Called(run[p], "add_role_to_instance_profile", f)
        IN  /\ iam' = IF ans = "ok"
                      THEN [iam EXCEPT !.attached = @ \cup
                                {[profile |-> ProfileName(script), role |-> RoleName(script)]}]
                      ELSE iam
            /\ run' = [run EXCEPT ![p] =
                    IF ans = "ok" \/ ans = ToleratedAddRoleCode(script)
                    THEN Goto([r EXCEPT !.profile_name = ProfileName(script)],
                              AfterIAM(script))
                    ELSE Fail(r, "ClientError", ans)]
    /\ UNCHANGED <<script, mode, args, s3, ec2, keyFile, envOps>>

\* IAM is eventually consistent: a created profile becomes visible some time later
EnvPropagate ==
    /\ \E x \in iam.profiles \ iam.visible :
        iam' = [iam EXCEPT !.visible = @ \cup {x}]
    /\ UNCHANGED <<script, mode, args, s3, ec2, keyFile, envOps, run>>

-----------------------------------------------------------------------------
(* assign_s3_role.py: the availability poller and the association *)

GetInstanceProfileAnswer(profile) ==
    IF profile \in iam.visible THEN "ok" ELSE "NoSuchEntity"

\* mutant: every error of get_instance_profile is taken for "not yet available"
NotYetAvailableAnyError(code) == TRUE

\* the except clause of the poller: `if code != "NoSuchEntity": raise`
NotYetAvailable(code) == code = "NoSuchEntity"

\* mutant: the last-pass test is off by one
LastAttemptOffByOne(attempt, attempts) == attempt = attempts

\* whether the poll that just failed with NoSuchEntity was the last one
LastAttempt(attempt, attempts) == attempt = attempts - 1

\* wait_for_instance_profile: one pass of `for attempt in range(attempts)` up to
\* the return, the raise or the sleep; with the range exhausted, the final raise
WaitPoll(p) ==
    /\ At(p, "wait_poll")
    /\ IF run[p].attempt >= args.attempts
       THEN run' = [run EXCEPT ![p] = Fail(@, "RuntimeError", "none")]
       ELSE \E f \in Faults :
            LET ans == Answer(f, GetInstanceProfileAnswer(run[p].profile_name))
                r   == Called(run[p], "get_instance_profile", f)
            IN  run' = [run EXCEPT ![p] =
                    IF ans = "ok"
                    THEN Goto([r EXCEPT !.profile_arn = ArnOf(r.profile_name)], "associate")
                    ELSE IF ~NotYetAvailable(ans) THEN Fail(r, "ClientError", ans)
                    ELSE IF LastAttempt(r.attempt, args.attempts)
                         THEN Fail(r, "RuntimeError", "none")
                         ELSE Goto(r, "wait_sleep")]
    /\ UNCHANGED <<script, mode, args, s3, ec2, iam, keyFile, envOps>>

\* wait_for_instance_profile: time.sleep(delay), then the next pass of the loop
WaitSleep(p) ==
    /\ At(p, "wait_sleep")
    /\ run' = [run EXCEPT ![p] =
            Goto([@ EXCEPT !.calls = Append(@, "sleep"), !.sleeps = @ + 1,
                           !.attempt = @ + 1], "wait_poll")]
    /\ UNCHANGED <<script, mode, args, s3, ec2, iam, keyFile, envOps>>

AssociateAnswer(instance) ==
    IF \E a \in ec2.assoc : a.instance = instance THEN "IncorrectState" ELSE "ok"

\* the ARN main hands to attach_profile_to_instance
AssociatedArn(r) == r.profile_arn

\* attach_profile_to_instance: ec2_client.associate_iam_instance_profile(...)
Associate(p) ==
    /\ At(p, "associate")
    /\ \E f \in Faults :
        LET ans == Answer(f, AssociateAnswer(InstanceArg))
            r   == Called(run[p], "associate_iam_instance_profile", f)
        IN  IF ans = "ok"
            THEN /\ ec2' = [ec2 EXCEPT !.assoc = @ \cup
                                {[instance |-> InstanceArg, arn |-> AssociatedArn(r)]}]
                 /\ run' = [run EXCEPT ![p] = Finish(r)]
            ELSE /\ ec2' = ec2
                 /\ run' = [run EXCEPT ![p] = Fail(r, "ClientError", ans)]
    /\ UNCHANGED <<script, mode, args, s3, iam, keyFile, envOps>>

-----------------------------------------------------------------------------
(* Launching the instance *)

\* the subnet main passes to launch_instance
SubnetUsed(r) ==
    IF script = "airflow" THEN args.subnet
    ELSE IF script = "inst" /\ args.subnet # "" THEN args.subnet
    ELSE r.subnet_id

\* mutant: main passes the looked-up subnet local even where --subnet-id is the source
LaunchRequestStale(r) ==
    [sg |-> r.sg_id, subnet |-> r.subnet_id, key |-> KeyName(script),
     profile |-> IF script = "airflow" THEN r.profile_name ELSE ""]

\* the identities main passes to launch_instance, as they appear in create_instances
LaunchRequest(r) ==
    [sg |-> r.sg_id, subnet |-> SubnetUsed(r), key |-> KeyName(script),
     profile |-> IF script = "airflow" THEN r.profile_name ELSE ""]

CreateInstancesAnswer(req) ==
    IF \E g \in ec2.groups : g.id = req.sg THEN "ok" ELSE "InvalidGroup.NotFound"

\* launch_instance: ec2_resource.create_instances(...); main returns
Launch(p) ==
    /\ At(p, "launch")
    /\ \E f \in Faults :
        LET req == LaunchRequest(run[p])
            ans == Answer(f, CreateInstancesAnswer(req))
            r   == Called(run[p], "create_instances", f)
        IN  IF ans = "ok"
            THEN /\ ec2' = [ec2 EXCEPT !.instances = @ \cup {[id |-> ec2.nextId, req |-> req]},
                                       !.nextId = @ + 1]
                 /\ run' = [run EXCEPT ![p] = Finish([r EXCEPT !.req = req])]
            ELSE /\ ec2' = ec2
                 /\ run' = [run EXCEPT ![p] = Fail(r, "ClientError", ans)]
    /\ UNCHANGED <<script, mode, args, s3, iam, keyFile, envOps>>

-----------------------------------------------------------------------------
(* vpc_setup/create_vpc.py: a module-level script, one call after the other,  *)
(* no except clause anywhere                                                  *)

\* the ids the control plane assigns to new VPCs, in order; a region holds at
\* most that many
VpcIds == <<"vpc-1", "vpc-2", "vpc-3", "vpc-4", "vpc-5">>

VpcCidr == "10.0.0.0/16"
Subnet1Cidr == "10.0.1.0/24"
Subnet2Cidr == "10.0.2.0/24"

\* the ingress rules create_vpc.py authorizes for pf1-public-sg
VpcPorts == {SSH, HTTP, HTTPS}

CreateVpcAnswer == IF Cardinality(ec2.vpcs) >= Len(VpcIds) THEN "VpcLimitExceeded" ELSE "ok"

\* a call of create_vpc.py that raised: nothing catches it, the script ends
\* with a traceback; otherwise the script goes on to its next call
VpcThen(r, ans, pc) == IF ans = "ok" THEN Goto(r, pc) ELSE Fail(r, "ClientError", ans)

\* the same for a call whose result is assigned to a local: rr is r with the
\* local assigned, which happens only when the call returned
VpcThenSet(r, rr, ans, pc) == IF ans = "ok" THEN Goto(rr, pc) ELSE Fail(r, "ClientError", ans)

\* response = ec2.create_vpc(CidrBlock="10.0.0.0/16", ...); vpc_id = ...
VpcCreateVpc(p) ==
    /\ At(p, "vpc_create_vpc")
    /\ \E f \in Faults :
        LET ans == Answer(f, CreateVpcAnswer)
            r   == Called(run[p], "create_vpc", f)
            id  == VpcIds[Cardinality(ec2.vpcs) + 1]
        IN  /\ ec2' = IF ans = "ok"
                      THEN [ec2 EXCEPT !.vpcs = @ \cup
                                {[id |-> id, cidr |-> VpcCidr, name |-> "pf1-vpc", attrs |-> {}]}]
                      ELSE ec2
            /\ run' = [run EXCEPT ![p] =
                         VpcThenSet(r, [r EXCEPT !.net.vpc_id = id], ans, "vpc_dns_support")]
    /\ UNCHANGED <<script, mode, args, s3, iam, keyFile, envOps>>

\* the VPC with attribute `attr` enabled
WithVpcAttr(vpc_id, attr) ==
    { IF v.id = vpc_id THEN [v EXCEPT !.attrs = @ \cup {attr}] ELSE v : v \in ec2.vpcs }

\* ec2.modify_vpc_attribute(VpcId=vpc_id, EnableDnsSupport={"Value": True})
VpcDnsSupport(p) ==
    /\ At(p, "vpc_dns_support")
    /\ \E f \in Faults :
        LET ans == Answer(f, "ok")
            r   == Called(run[p], "modify_vpc_attribute", f)
        IN  /\ ec2' = IF ans = "ok"
                      THEN [ec2 EXCEPT !.vpcs = WithVpcAttr(r.net.vpc_id, "EnableDnsSupport")]
                      ELSE ec2
            /\ run' = [run EXCEPT ![p] = VpcThen(r, ans, "vpc_dns_hostnames")]
    /\ UNCHANGED <<script, mode, args, s3, iam, keyFile, envOps>>

\* ec2.modify_vpc_attribute(VpcId=vpc_id, EnableDnsHostnames={"Value": True})
VpcDnsHostnames(p) ==
    /\ At(p, "vpc_dns_hostnames")
    /\ \E f \in Faults :
        LET ans == Answer(f, "ok")
            r   == Called(run[p], "modify_vpc_attribute", f)
        IN  /\ ec2' = IF ans = "ok"
                      THEN [ec2 EXCEPT !.vpcs = WithVpcAttr(r.net.vpc_id, "EnableDnsHostnames")]
                      ELSE ec2
            /\ run' = [run EXCEPT ![p] = VpcThen(r, ans, "vpc_create_igw")]
    /\ UNCHANGED <<script, mode, args, s3, iam, keyFile, envOps>>

\* igw_response = ec2.create_internet_gateway(...); igw_id = ...
VpcCreateIgw(p) ==
    /\ At(p, "vpc_create_igw")
    /\ \E f \in Faults :
        LET ans == Answer(f, "ok")
            r   == Called(run[p], "create_internet_gateway", f)
        IN  /\ ec2' = IF ans = "ok"
                      THEN [ec2 EXCEPT !.igws = @ \cup {[id |-> ec2.nextId, vpc |-> ""]},
                                       !.nextId = @ + 1]
                      ELSE ec2
            /\ run' = [run EXCEPT ![p] =
                         VpcThenSet(r, [r EXCEPT !.net.igw_id = ec2.nextId], ans, "vpc_attach_igw")]
    /\ UNCHANGED <<script, mode, args, s3, iam, keyFile, envOps>>

\* ec2.attach_internet_gateway(InternetGatewayId=igw_id, VpcId=vpc_id)
VpcAttachIgw(p) ==
    /\ At(p, "vpc_attach_igw")
    /\ \E f \in Faults :
        LET ans == Answer(f, "ok")
            r   == Called(run[p], "attach_internet_gateway", f)
        IN  /\ ec2' = IF ans = "ok"
                      THEN [ec2 EXCEPT !.igws =
                                { IF g.id = r.net.igw_id THEN [g EXCEPT !.vpc = r.net.vpc_id]
                                  ELSE g : g \in @ }]
                      ELSE ec2
            /\ run' = [run EXCEPT ![p] = VpcThen(r, ans, "vpc_describe_azs")]
    /\ UNCHANGED <<script, mode, args, s3, iam, keyFile, envOps>>

\* azs = ec2.describe_availability_zones()["AvailabilityZones"]
VpcDescribeAzs(p) ==
    /\ At(p, "vpc_describe_azs")
    /\ \E f \in Faults :
        LET ans == Answer(f, "ok")
            r   == Called(run[p], "describe_availability_zones", f)
        IN  run' = [run EXCEPT ![p] = VpcThen(r, ans, "vpc_create_subnet_1")]
    /\ UNCHANGED <<script, mode, args, s3, ec2, iam, keyFile, envOps>>

\* two subnets of one VPC may not have the same CIDR block
CreateSubnetAnswer(vpc_id, cidr) ==
    IF \E sn \in ec2.subnets : sn.vpc = vpc_id /\ sn.cidr = cidr
    THEN "InvalidSubnet.Conflict" ELSE "ok"

\* a new subnet: no tags, no public addresses on launch
NewSubnet(vpc_id, cidr) ==
    [id |-> ec2.nextId, vpc |-> vpc_id, cidr |-> cidr, tier |-> "", name |-> "",
     mapPublic |-> FALSE]

\* subnet_1 = ec2.create_subnet(VpcId=vpc_id, CidrBlock="10.0.1.0/24", ...)
VpcCreateSubnet1(p) ==
    /\ At(p, "vpc_create_subnet_1")
    /\ \E f \in Faults :
        LET ans == Answer(f, CreateSubnetAnswer(run[p].net.vpc_id, Subnet1Cidr))
            r   == Called(run[p], "create_subnet", f)
        IN  /\ ec2' = IF ans = "ok"
                      THEN [ec2 EXCEPT !.subnets = @ \cup {NewSubnet(r.net.vpc_id, Subnet1Cidr)},
                                       !.nextId = @ + 1]
                      ELSE ec2
            /\ run' = [run EXCEPT ![p] =
                         VpcThenSet(r, [r EXCEPT !.net.subnet_1_id = ec2.nextId], ans,
                                 "vpc_create_subnet_2")]
    /\ UNCHANGED <<script, mode, args, s3, iam, keyFile, envOps>>

\* subnet_2 = ec2.create_subnet(VpcId=vpc_id, CidrBlock="10.0.2.0/24", ...)
VpcCreateSubnet2(p) ==
    /\ At(p, "vpc_create_subnet_2")
    /\ \E f \in Faults :
        LET ans == Answer(f, CreateSubnetAnswer(run[p].net.vpc_id, Subnet2Cidr))
            r   == Called(run[p], "create_subnet", f)
        IN  /\ ec2' = IF ans = "ok"
                      THEN [ec2 EXCEPT !.subnets = @ \cup {NewSubnet(r.net.vpc_id, Subnet2Cidr)},
                                       !.nextId = @ + 1]
                      ELSE ec2
            /\ run' = [run EXCEPT ![p] =
                         VpcThenSet(r, [r EXCEPT !.net.subnet_2_id = ec2.nextId], ans,
                                 "vpc_tag_subnet_1")]
    /\ UNCHANGED <<script, mode, args, s3, iam, keyFile, envOps>>

\* the subnets after create_tags(Resources=[id], Tags=[Name, Tier])
Tagged(id, name, tier) ==
    { IF sn.id = id THEN [sn EXCEPT !.name = name, !.tier = tier] ELSE sn : sn \in ec2.subnets }

\* ec2.create_tags(Resources=[subnet_1_id], Tags=[Name=pf1-subnet-1, Tier=public])
VpcTagSubnet1(p) ==
    /\ At(p, "vpc_tag_subnet_1")
    /\ \E f \in Faults :
        LET ans == Answer(f, "ok")
            r   == Called(run[p], "create_tags", f)
        IN  /\ ec2' = IF ans = "ok"
                      THEN [ec2 EXCEPT !.subnets = Tagged(r.net.subnet_1_id, "pf1-subnet-1", "public")]
                      ELSE ec2
            /\ run' = [run EXCEPT ![p] = VpcThen(r, ans, "vpc_tag_subnet_2")]
    /\ UNCHANGED <<script, mode, args, s3, iam, keyFile, envOps>>

\* mutant: the second subnet is tagged public as well
Subnet2TierPublic == "public"

\* the Tier tag create_vpc.py gives subnet_2
Subnet2Tier == "private"

\* ec2.create_tags(Resources=[subnet_2_id], Tags=[Name=pf1-subnet-2, Tier=private])
VpcTagSubnet2(p) ==
    /\ At(p, "vpc_tag_subnet_2")
    /\ \E f \in Faults :
        LET ans == Answer(f, "ok")
            r   == Called(run[p], "create_tags", f)
        IN  /\ ec2' = IF ans = "ok"
                      THEN [ec2 EXCEPT !.subnets = Tagged(r.net.subnet_2_id, "pf1-subnet-2", Subnet2Tier)]
                      ELSE ec2
            /\ run' = [run EXCEPT ![p] = VpcThen(r, ans, "vpc_create_rt")]
    /\ UNCHANGED <<script, mode, args, s3, iam, keyFile, envOps>>

\* public_rt = ec2.create_route_table(VpcId=vpc_id, ...); public_rt_id = ...
VpcCreateRouteTable(p) ==
    /\ At(p, "vpc_create_rt")
    /\ \E f \in Faults :
        LET ans == Answer(f, "ok")
            r   == Called(run[p], "create_route_table", f)
        IN  /\ ec2' = IF ans = "ok"
                      THEN [ec2 EXCEPT !.rts = @ \cup
                                {[id |-> ec2.nextId, vpc |-> r.net.vpc_id, name |-> "pf1-public-rt",
                                  routes |-> {}, subnets |-> {}]},
                                       !.nextId = @ + 1]
                      ELSE ec2
            /\ run' = [run EXCEPT ![p] =
                         VpcThenSet(r, [r EXCEPT !.net.public_rt_id = ec2.nextId], ans,
                                 "vpc_create_route")]
    /\ UNCHANGED <<script, mode, args, s3, iam, keyFile, envOps>>

\* ec2.create_route(RouteTableId=public_rt_id, DestinationCidrBlock="0.0.0.0/0",
\*                  GatewayId=igw_id)
VpcCreateRoute(p) ==
    /\ At(p, "vpc_create_route")
    /\ \E f \in Faults :
        LET ans == Answer(f, "ok")
            r   == Called(run[p], "create_route", f)
        IN  /\ ec2' = IF ans = "ok"
                      THEN [ec2 EXCEPT !.rts =
                                { IF t.id = r.net.public_rt_id
                                  THEN [t EXCEPT !.routes = @ \cup
                                            {[dest |-> "0.0.0.0/0", gateway |-> r.net.igw_id]}]
                                  ELSE t : t \in @ }]
                      ELSE ec2
            /\ run' = [run EXCEPT ![p] = VpcThen(r, ans, "vpc_associate_rt")]
    /\ UNCHANGED <<script, mode, args, s3, iam, keyFile, envOps>>

\* ec2.associate_route_table(RouteTableId=public_rt_id, SubnetId=subnet_1_id)
VpcAssociateRouteTable(p) ==
    /\ At(p, "vpc_associate_rt")
    /\ \E f \in Faults :
        LET ans == Answer(f, "ok")
            r   == Called(run[p], "associate_route_table", f)
        IN  /\ ec2' = IF ans = "ok"
                      THEN [ec2 EXCEPT !.rts =
                                { IF t.id = r.net.public_rt_id
                                  THEN [t EXCEPT !.subnets = @ \cup {r.net.subnet_1_id}]
                                  ELSE t : t \in @ }]
                      ELSE ec2
            /\ run' = [run EXCEPT ![p] = VpcThen(r, ans, "vpc_create_sg")]
    /\ UNCHANGED <<script, mode, args, s3, iam, keyFile, envOps>>

\* public_sg = ec2.create_security_group(GroupName="pf1-public-sg", VpcId=vpc_id, ...)
VpcCreateSecurityGroup(p) ==
    /\ At(p, "vpc_create_sg")
    /\ \E f \in Faults :
        LET ans == Answer(f, CreateSecurityGroupAnswer("pf1-public-sg", run[p].net.vpc_id))
            r   == Called(run[p], "create_security_group", f)
        IN  /\ ec2' = IF ans = "ok"
                      THEN [ec2 EXCEPT !.groups = @ \cup
                                {[id |-> ec2.nextId, name |-> "pf1-public-sg",
                                  vpc |-> r.net.vpc_id, ingress |-> {}]},
                                       !.nextId = @ + 1]
                      ELSE ec2
            /\ run' = [run EXCEPT ![p] =
                         VpcThenSet(r, [r EXCEPT !.net.public_sg_id = ec2.nextId], ans,
                                 "vpc_authorize")]
    /\ UNCHANGED <<script, mode, args, s3, iam, keyFile, envOps>>

\* ec2.authorize_security_group_ingress(GroupId=public_sg_id, IpPermissions=[22, 80, 443])
VpcAuthorizeIngress(p) ==
    /\ At(p, "vpc_authorize")
    /\ \E f \in Faults :
        LET ans == Answer(f, AuthorizeAnswer(run[p].net.public_sg_id))
            r   == Called(run[p], "authorize_security_group_ingress", f)
        IN  /\ ec2' = IF ans = "ok"
                      THEN [ec2 EXCEPT !.groups =
                                { IF g.id = r.net.public_sg_id
                                  THEN [g EXCEPT !.ingress = @ \cup VpcPorts]
                                  ELSE g : g \in @ }]
                      ELSE ec2
            /\ run' = [run EXCEPT ![p] = VpcThen(r, ans, "vpc_map_public")]
    /\ UNCHANGED <<script, mode, args, s3, iam, keyFile, envOps>>

\* ec2.modify_subnet_attribute(SubnetId=subnet_1_id, MapPublicIpOnLaunch={"Value": True})
VpcMapPublicIp(p) ==
    /\ At(p, "vpc_map_public")
    /\ \E f \in Faults :
        LET ans == Answer(f, "ok")
            r   == Called(run[p], "modify_subnet_attribute", f)
        IN  /\ ec2' = IF ans = "ok"
                      THEN [ec2 EXCEPT !.subnets =
                                { IF sn.id = r.net.subnet_1_id
                                  THEN [sn EXCEPT !.mapPublic = TRUE] ELSE sn : sn \in @ }]
                      ELSE ec2
            /\ run' = [run EXCEPT ![p] = VpcThen(r, ans, "vpc_allocate_address")]
    /\ UNCHANGED <<script, mode, args, s3, iam, keyFile, envOps>>

\* eip_1 = ec2.allocate_address(Domain="vpc")
VpcAllocateAddress(p) ==
    /\ At(p, "vpc_allocate_address")
    /\ \E f \in Faults :
        LET ans == Answer(f, "ok")
            r   == Called(run[p], "allocate_address", f)
        IN  /\ ec2' = IF ans = "ok"
                      THEN [ec2 EXCEPT !.eips = @ \cup {ec2.nextId}, !.nextId = @ + 1]
                      ELSE ec2
            /\ run' = [run EXCEPT ![p] =
                         VpcThenSet(r, [r EXCEPT !.net.allocation_id = ec2.nextId], ans,
                                 "vpc_create_nat")]
    /\ UNCHANGED <<script, mode, args, s3, iam, keyFile, envOps>>

\* nat_1 = ec2.create_nat_gateway(SubnetId=subnet_1_id, AllocationId=..., ...); the
\* final print; the script ends
VpcCreateNatGateway(p) ==
    /\ At(p, "vpc_create_nat")
    /\ \E f \in Faults :
        LET ans == Answer(f, "ok")
            r   == Called(run[p], "create_nat_gateway", f)
        IN  /\ ec2' = IF ans = "ok"
                      THEN [ec2 EXCEPT !.nats = @ \cup
                                {[id |-> ec2.nextId, subnet |-> r.net.subnet_1_id,
                                  eip |-> r.net.allocation_id, name |-> "pf1-nat-1"]},
                                       !.nextId = @ + 1]
                      ELSE ec2
            /\ run' = [run EXCEPT ![p] =
                         IF ans = "ok" THEN Finish([r EXCEPT !.net.nat_id = ec2.nextId])
                         ELSE Fail(r, "ClientError", ans)]
    /\ UNCHANGED <<script, mode, args, s3, iam, keyFile, envOps>>

-----------------------------------------------------------------------------
(* Specifications *)

Step(p) ==
    \/ Start(p)
    \/ Interrupt(p)
    \/ CreateBucketScript(p)
    \/ HeadBucket(p)
    \/ CreateBucket(p)
    \/ PutObject(p)
    \/ CreateKeyPair(p)
    \/ KeyWrite(p)
    \/ KeyChmod(p)
    \/ DescribeSubnets(p)
    \/ CreateSecurityGroup(p)
    \/ AuthorizeIngress(p)
    \/ DescribeSecurityGroups(p)
    \/ GetSecurityGroupId(p)
    \/ CreateRole(p)
    \/ PutRolePolicy(p)
    \/ CreateInstanceProfile(p)
    \/ AddRole(p)
    \/ WaitPoll(p)
    \/ WaitSleep(p)
    \/ Associate(p)
    \/ Launch(p)

Next ==
    \/ \E p \in Procs : Step(p)
    \/ EnvDeleteGroup
    \/ EnvPropagate

\* successive runs of one script
Spec == Init /\ [][Next]_vars

\* overlapping runs of one script
SpecConc == InitConc /\ [][Next]_vars

\* assign_s3_role.py with the poller's `attempts` parameter drawn from 0..MaxAttempts
InitWait ==
    /\ mode = "seq"
    /\ script = "assign"
    /\ args \in { [subnet |-> "", attempts |-> n, bucket |-> BucketArg] : n \in 0..MaxAttempts }
    /\ s3 = EmptyS3
    /\ ec2 = EmptyEC2
    /\ iam \in PreIAM("assign")
    /\ keyFile = NoFile
    /\ envOps = 0
    /\ run = [p \in Procs |-> IdleRun]

NextWait ==
    \/ \E p \in Procs :
        \/ Start(p)
        \/ Interrupt(p)
        \/ CreateRole(p)
        \/ PutRolePolicy(p)
        \/ CreateInstanceProfile(p)
        \/ AddRole(p)
        \/ WaitPoll(p)
        \/ WaitSleep(p)
        \/ Associate(p)
    \/ EnvPropagate

SpecWait == InitWait /\ [][NextWait]_vars

\* deploy_ec2_airflow.py run without --bucket-name
InitDefaultBucket ==
    /\ mode = "seq"
    /\ script = "airflow"
    /\ args = [subnet |-> "subnet-given", attempts |-> DefaultAttempts, bucket |-> ""]
    /\ s3 = EmptyS3
    /\ ec2 \in PreEC2("airflow")
    /\ iam \in PreIAM("airflow")
    /\ keyFile \in PreFiles("airflow")
    /\ envOps = 0
    /\ run = [p \in Procs |-> IdleRun]
    /\ PreKinds <= MaxPre

NextAirflow ==
    \/ \E p \in Procs :
        \/ Start(p)
        \/ Interrupt(p)
        \/ HeadBucket(p)
        \/ CreateBucket(p)
        \/ PutObject(p)
        \/ CreateKeyPair(p)
        \/ KeyWrite(p)
        \/ KeyChmod(p)
        \/ CreateSecurityGroup(p)
        \/ AuthorizeIngress(p)
        \/ DescribeSecurityGroups(p)
        \/ CreateRole(p)
        \/ PutRolePolicy(p)
        \/ CreateInstanceProfile(p)
        \/ AddRole(p)
        \/ Launch(p)
    \/ EnvDeleteGroup
    \/ EnvPropagate

SpecDefaultBucket == InitDefaultBucket /\ [][NextAirflow]_vars

\* successive runs of create_vpc.py
InitVpc ==
    /\ mode = "seq"
    /\ script = "vpc"
    /\ args = [subnet |-> "", attempts |-> DefaultAttempts, bucket |-> ""]
    /\ s3 = EmptyS3
    /\ ec2 = EmptyEC2
    /\ iam = EmptyIAM
    /\ keyFile = NoFile
    /\ envOps = 0
    /\ run = [p \in Procs |-> IdleRun]

NextVpc ==
    \E p \in Procs :
        \/ Start(p)
        \/ Interrupt(p)
        \/ VpcCreateVpc(p)
        \/ VpcDnsSupport(p)
        \/ VpcDnsHostnames(p)
        \/ VpcCreateIgw(p)
        \/ VpcAttachIgw(p)
        \/ VpcDescribeAzs(p)
        \/ VpcCreateSubnet1(p)
        \/ VpcCreateSubnet2(p)
        \/ VpcTagSubnet1(p)
        \/ VpcTagSubnet2(p)
        \/ VpcCreateRouteTable(p)
        \/ VpcCreateRoute(p)
        \/ VpcAssociateRouteTable(p)
        \/ VpcCreateSecurityGroup(p)
        \/ VpcAuthorizeIngress(p)
        \/ VpcMapPublicIp(p)
        \/ VpcAllocateAddress(p)
        \/ VpcCreateNatGateway(p)

SpecVpc == InitVpc /\ [][NextVpc]_vars

\* after runs of create_vpc.py the operator goes on to
\* `python create_instance.py --vpc-id vpc-1 --test-s3-bucket ...`, everything
\* else left at its default
SwitchToInstance ==
    /\ script = "vpc"
    /\ \E p \in Procs : Ended(run[p])
    /\ \A p \in Procs : run[p].st # "running"
    /\ script' = "inst"
    /\ UNCHANGED <<mode, args, s3, ec2, iam, keyFile, envOps, run>>

NextVpcInst ==
    \/ NextVpc
    \/ SwitchToInstance
    \/ \E p \in Procs :
        \/ CreateKeyPair(p)
        \/ KeyWrite(p)
        \/ KeyChmod(p)
        \/ DescribeSubnets(p)
        \/ GetSecurityGroupId(p)
        \/ Launch(p)

\* runs of create_vpc.py followed by runs of create_instance.py in the first VPC
SpecVpcInst == InitVpc /\ [][NextVpcInst]_vars

-----------------------------------------------------------------------------
(* Properties *)

SGScripts == {"airflow", "rest"}

KeyScripts == {"airflow", "rest", "inst"}

\* the script's security group was there before the first run
PreExistingGroup == \E g \in ec2.groups : g.id = 100

\* nothing but security groups created by the runs, and no other actor at work
CleanStart ==
    /\ envOps = 0
    /\ s3.foreign = {}
    /\ "other-role" \notin iam.roles

\* ensure_security_group has returned a group id in run r
SGReturned(r) ==
    /\ r.sgPath \in {"created", "reused"}
    /\ r.pc # "authorize_ingress"
    /\ ~(r.st \in {"failed", "killed"} /\ r.step = "sg")

\* how often run r issued `call`
Count(r, call) == Cardinality({ i \in DOMAIN r.calls : r.calls[i] = call })

LastCall(r) == IF r.calls = <<>> THEN "none" ELSE r.calls[Len(r.calls)]

\* C1: when the group did not exist before the first run and no other actor
\* touches the control plane, the first ensure_security_group that returns has
\* created the group, and every later one that returns has reused it and returns
\* the same group id.
C1_CreatedThenReused ==
    (script \in SGScripts /\ mode = "seq" /\ envOps = 0 /\ ~PreExistingGroup) =>
        /\ SGReturned(run[1]) => run[1].sgPath = "created"
        /\ \A q \in Procs \ {1} :
            (SGReturned(run[1]) /\ SGReturned(run[q])) =>
                /\ run[q].sgPath = "reused"
                /\ run[q].sg_id = run[1].sg_id

C1_Witness ==
    /\ script \in SGScripts /\ envOps = 0 /\ ~PreExistingGroup
    /\ SGReturned(run[1]) /\ run[1].sgPath = "created"
    /\ SGReturned(run[2]) /\ run[2].sgPath = "reused"
    /\ run[2].sg_id = run[1].sg_id

\* the "already exists" answers of the create calls
AlreadyExistsCodes ==
    {"InvalidGroup.Duplicate", "InvalidKeyPair.Duplicate", "EntityAlreadyExists",
     "BucketAlreadyOwnedByYou"}

C3_Original ==
    \A p \in Procs :
        (script \in KeyScripts /\ run[p].st = "failed" /\ run[p].step = "key") =>
            /\ run[p].exc = "ClientError"
            /\ run[p].code = "InternalError"
            /\ run[p].material = 0

\* C4 as stated: a duplicate reported by create_security_group followed by an
\* empty lookup ends in a distinct Inconsistent failure that the script's
\* top-level handler reports.
C4_Original ==
    \A p \in Procs :
        (script \in SGScripts /\ run[p].st = "failed" /\ ~run[p].injected
            /\ LastCall(run[p]) = "describe_security_groups") =>
            /\ run[p].exc = "Inconsistent"
            /\ run[p].handled

\* run r issued `call` and went on to a later call, so the call had succeeded
\* or its error was one the routine lets pass
Passed(r, call) ==
    \E i \in DOMAIN r.calls : i < Len(r.calls) /\ r.calls[i] = call

\* what the steps of run r created or ensured is still in the control plane
LeftInPlace(r) ==
    /\ Passed(r, "create_bucket") => r.bucket_name \in s3.mine
    /\ Passed(r, "put_object") => r.bucket_name \in s3.objects
    /\ r.material # 0 => \E k \in ec2.keys : k.material = r.material
    /\ (r.sgPath = "created" /\ envOps = 0) => \E g \in ec2.groups : g.id = r.sg_id
    /\ Passed(r, "create_role") => RoleName(script) \in iam.roles
    /\ Passed(r, "create_instance_profile") => ProfileName(script) \in iam.profiles

\* C5: in every run of deploy_ec2_airflow.py that failed at step k, every call the
\* run ever issued belongs to a step up to k and the last one to step k itself,
\* what the earlier steps created is still in place, and the exit status is not
\* zero.
C5_FailFast ==
    script = "airflow" =>
        \A p \in Procs :
            run[p].st = "failed" =>
                /\ \A i \in DOMAIN run[p].calls :
                      StepRank(CallStep(run[p].calls[i])) <= StepRank(run[p].step)
                /\ CallStep(LastCall(run[p])) = run[p].step
                /\ run[p].pc = "end"
                /\ run[p].exit # 0
                /\ LeftInPlace(run[p])

C5_Witness ==
    /\ script = "airflow"
    /\ run[1].st = "failed" /\ run[1].step = "iam"
    /\ run[1].sgPath = "created" /\ run[1].material # 0
    /\ BucketArg \in s3.objects

\* C6 as stated: neither IAM routine fails when add_role_to_instance_profile is
\* rejected because the profile already has a role (LimitExceeded).
C6_Original ==
    \A p \in Procs :
        (script \in {"assign", "airflow"} /\ run[p].st = "failed" /\ run[p].step = "iam") =>
            run[p].code # "LimitExceeded"

Max(a, b) == IF a >= b THEN a ELSE b

\* the poller of run r ended without finding the profile and without any other
\* rejection by the control plane
PolledInVain(r) == r.st = "failed" /\ r.step = "wait" /\ ~r.injected

\* C7: for every attempts >= 0, a wait_for_instance_profile that sees NoSuchEntity
\* on every poll ends with RuntimeError after exactly `attempts` polls and
\* max(attempts - 1, 0) sleeps, and no call follows; while it waits it never
\* polls more than `attempts` times.
C7_PollerTimeout ==
    \A p \in Procs :
        /\ PolledInVain(run[p]) =>
              /\ run[p].exc = "RuntimeError"
              /\ Count(run[p], "get_instance_profile") = args.attempts
              /\ Count(run[p], "sleep") = Max(args.attempts - 1, 0)
              /\ Count(run[p], "associate_iam_instance_profile") = 0
              /\ LastCall(run[p]) \in {"get_instance_profile", "add_role_to_instance_profile"}
              /\ run[p].exit = 1
        /\ Count(run[p], "get_instance_profile") <= args.attempts
        /\ Count(run[p], "sleep") <= Max(args.attempts - 1, 0)

C7_Witness ==
    /\ PolledInVain(run[1])
    /\ args.attempts = MaxAttempts
    /\ Count(run[1], "get_instance_profile") = MaxAttempts

\* C8: when runs overlap and no other actor touches the control plane, no run
\* fails inside ensure_security_group unless the control plane rejects a call
\* for a reason of its own; any two runs whose ensure_security_group returned
\* hold the same group id and at most one of them created the group; a run that
\* reused a group that was not there before found one that some overlapping run
\* created.
C8_ConcurrentEnsure ==
    (script \in SGScripts /\ mode = "conc" /\ envOps = 0) =>
        /\ \A p \in Procs :
              (run[p].st = "failed" /\ run[p].step = "sg") => run[p].injected
        /\ \A p, q \in Procs :
              (p # q /\ SGReturned(run[p]) /\ SGReturned(run[q])) =>
                  /\ run[p].sg_id = run[q].sg_id
                  /\ ~(run[p].sgPath = "created" /\ run[q].sgPath = "created")
        /\ \A p \in Procs :
              (SGReturned(run[p]) /\ run[p].sgPath = "reused" /\ ~PreExistingGroup) =>
                  \E q \in Procs \ {p} : run[q].sgPath = "created"
                                          /\ run[q].sg_id = run[p].sg_id

\* two overlapping runs: the one that lost the race returned before the winner
\* had authorized the ingress rules
C8_Witness ==
    /\ script \in SGScripts /\ mode = "conc" /\ envOps = 0 /\ ~PreExistingGroup
    /\ run[1].sgPath = "created" /\ run[1].pc = "authorize_ingress"
    /\ run[1].st = "running"
    /\ SGReturned(run[2]) /\ run[2].sgPath = "reused"

\* C9 as stated: after a run of deploy_ec2_airflow.py was interrupted between two
\* of its calls, the next run of the same command fails only if the control
\* plane rejects one of its calls for a reason of its own.
C9_Original ==
    (script = "airflow" /\ mode = "seq" /\ CleanStart) =>
        \A q \in Procs \ {1} :
            (run[q - 1].st = "killed" /\ run[q].st = "failed") => run[q].injected

\* C10: the identities in every create_instances request are the ones the
\* earlier steps produced: the id of the script's security group, the subnet
\* given or found, the key pair name, and (Airflow) the instance profile name;
\* the ARN associated by assign_s3_role.py is the ARN of its instance profile.
C10_Threading ==
    /\ \A p \in Procs :
        run[p].req # NoReq =>
            /\ \E g \in GroupsNamed(GroupName(script), VpcArg) : g.id = run[p].req.sg
            /\ run[p].req.sg = run[p].sg_id
            /\ run[p].req.key = KeyName(script)
            /\ \E k \in ec2.keys : k.name = run[p].req.key
            /\ IF script = "airflow" \/ (script = "inst" /\ args.subnet # "")
               THEN run[p].req.subnet = args.subnet /\ args.subnet # ""
               ELSE ec2.public = {run[p].req.subnet}
            /\ IF script = "airflow"
               THEN run[p].req.profile = ProfileName(script)
                    /\ run[p].req.profile \in iam.profiles
               ELSE run[p].req.profile = ""
    /\ \A a \in ec2.assoc :
        /\ a.instance = InstanceArg
        /\ a.arn = ArnOf(ProfileName(script))
        /\ ProfileName(script) \in iam.visible

C10_Witness ==
    /\ script = "airflow"
    /\ run[1].st = "ok"
    /\ run[1].req # NoReq
    /\ run[1].sgPath = "reused"

\* C11 as stated: all runs of deploy_ec2_airflow.py with one command line use the
\* same bucket name, also when --bucket-name is omitted, so that the runs
\* together create at most one bucket and a run after a completed one issues no
\* create_bucket.
C11_Original ==
    (script = "airflow" /\ mode = "seq") =>
        /\ \A p, q \in Procs :
              (run[p].st # "idle" /\ run[q].st # "idle") =>
                  run[p].bucket_name = run[q].bucket_name
        /\ \A q \in Procs \ {1} :
              run[1].st = "ok" => Count(run[q], "create_bucket") = 0

\* create_key_pair of run r created a key pair and returned
KeyReturned(r) ==
    /\ r.material # 0
    /\ r.pc \notin {"key_write", "key_chmod"}
    /\ ~(r.st = "killed" /\ r.step = "key")

\* C12: once a create_key_pair that created the key pair has returned, the file
\* at key_path holds the key material the control plane returned to it and has
\* mode 0600; as long as no run has created a key pair, the file is as it was
\* before the first run (absent, or the file of an earlier creation).
C12_KeyFile ==
    script \in KeyScripts =>
        /\ \A p \in Procs :
              KeyReturned(run[p]) =>
                  /\ keyFile.exists
                  /\ keyFile.content = run[p].material
                  /\ keyFile.mode = "0600"
                  /\ \E k \in ec2.keys : k.name = KeyName(script)
                                           /\ k.material = run[p].material
        /\ (\A p \in Procs : run[p].material = 0) => keyFile \in PreFiles(script)

C12_Witness ==
    /\ script \in KeyScripts
    /\ KeyReturned(run[1]) /\ run[1].st = "ok"
    /\ keyFile.content = run[1].material /\ keyFile.mode = "0600"
    /\ run[2].st = "ok" /\ run[2].material = 0
    /\ Count(run[2], "create_key_pair") = 1

\* C13 as stated: in create_instance.py a missing security group or a missing
\* public subnet ends the run before any create_instances call, with a non-zero
\* exit status and a diagnostic printed by the script's failure handler.
C13_Original ==
    script = "inst" =>
        \A p \in Procs :
            (run[p].st = "failed" /\ run[p].exc = "ValueError") =>
                /\ Count(run[p], "create_instances") = 0
                /\ run[p].exit # 0
                /\ run[p].handled

\* the ids of the groups that ever had the script's group name in the VPC: the
\* group that was there before the first run and the groups the runs created
GroupIdsEver ==
    {100} \cup { run[q].sg_id : q \in { x \in Procs : run[x].sgPath = "created" } }

\* C14: an ensure_security_group whose create call was answered with
\* InvalidGroup.Duplicate and whose lookup returned a group has returned the id
\* of a group of that name and VPC (the one still there, when no other actor
\* deleted it); the duplicate path fails only when the lookup itself is rejected
\* or comes back empty after another actor's deletion.
C14_DuplicatePath ==
    script \in SGScripts =>
        \A p \in Procs :
            /\ run[p].sgPath = "reused" =>
                  /\ run[p].sg_id \in GroupIdsEver
                  /\ Count(run[p], "describe_security_groups") = 1
                  /\ ~(run[p].st = "failed" /\ run[p].step = "sg")
                  /\ envOps = 0 =>
                        \E g \in GroupsNamed(GroupName(script), VpcArg) : g.id = run[p].sg_id
            /\ (run[p].st = "failed" /\ LastCall(run[p]) = "describe_security_groups"
                    /\ ~run[p].injected) =>
                  /\ run[p].exc = "IndexError"
                  /\ envOps > 0

C14_Witness ==
    /\ script \in SGScripts
    /\ PreExistingGroup
    /\ run[1].sgPath = "reused" /\ run[1].sg_id = 100
    /\ LastCall(run[1]) = "describe_security_groups"
    /\ run[1].st = "running"

\* the scripts that end with a create_instances call
LaunchScripts == {"airflow", "rest", "inst"}

\* C15 as stated: a second run against the state a successful first run left
\* completes unless the control plane rejects a call for a reason of its own,
\* and the two runs together leave one VPC with its two subnets, one route
\* table and one NAT gateway (create_vpc.py), resp. one instance (the launch
\* step of the other scripts).
C15_Original ==
    (mode = "seq" /\ run[1].st = "ok" /\ Ended(run[2])) =>
        /\ script = "vpc" =>
              /\ run[2].st = "failed" => run[2].injected
              /\ Cardinality(ec2.vpcs) <= 1
              /\ Cardinality(ec2.subnets) <= 2
              /\ Cardinality(ec2.rts) <= 1
              /\ Cardinality(ec2.nats) <= 1
        /\ script \in LaunchScripts =>
              /\ run[2].st = "failed" => run[2].injected
              /\ Cardinality(ec2.instances) <= 1

\* the scripts that look the public subnet up
SubnetScripts == {"rest", "inst"}

\* C16: find_public_subnet returned an id exactly when one subnet of the VPC is
\* tagged Tier=public, and then that subnet's id; with none or several it raised
\* ValueError and no id was returned; create_instance.py calls it only when no
\* --subnet-id was given.
C16_FindPublicSubnet ==
    script \in SubnetScripts =>
        \A p \in Procs :
            /\ Count(run[p], "describe_subnets") <= 1
            /\ run[p].subnet_id # "" =>
                  /\ ec2.public = {run[p].subnet_id}
                  /\ Count(run[p], "describe_subnets") = 1
            /\ (Count(run[p], "describe_subnets") = 1 /\ ~run[p].injected) =>
                  IF Cardinality(ec2.public) = 1
                  THEN /\ run[p].subnet_id \in ec2.public
                       /\ ~(run[p].st = "failed" /\ run[p].step = "subnet")
                  ELSE /\ run[p].subnet_id = ""
                       /\ run[p].st = "failed"
                       /\ run[p].exc = "ValueError"
                       /\ LastCall(run[p]) = "describe_subnets"
            /\ (script = "inst" /\ args.subnet # "") =>
                  Count(run[p], "describe_subnets") = 0
            /\ (script = "inst" /\ args.subnet = "" /\ run[p].req # NoReq) =>
                  Count(run[p], "describe_subnets") = 1

C16_Witness ==
    /\ script = "inst" /\ args.subnet = ""
    /\ run[1].st = "ok"
    /\ ec2.public = {run[1].subnet_id}
    /\ run[1].req.subnet = run[1].subnet_id
    /\ run[2].st = "ok" /\ run[2].subnet_id = run[1].subnet_id

\* C17: a run of ensure_bucket has issued create_bucket only after head_bucket
\* failed with 404 or NoSuchBucket, and after such a failure create_bucket is
\* its next call; after a successful head_bucket no create_bucket is issued and
\* ensure_bucket does not fail; after any other failure of head_bucket the run
\* has failed with that error and has issued no create_bucket.
C17_HeadThenCreate ==
    script = "airflow" =>
        \A p \in Procs :
            /\ Count(run[p], "head_bucket") <= 1
            /\ Count(run[p], "create_bucket") <= 1
            /\ Count(run[p], "create_bucket") = 1 =>
                  /\ run[p].head \in {"404", "NoSuchBucket"}
                  /\ run[p].calls[1] = "head_bucket"
                  /\ run[p].calls[2] = "create_bucket"
            /\ run[p].head \in {"404", "NoSuchBucket"} =>
                  \/ Count(run[p], "create_bucket") = 1
                  \/ run[p].st = "running" /\ run[p].pc = "create_bucket"
                  \/ run[p].st = "killed" /\ run[p].step = "bucket"
            /\ run[p].head = "ok" =>
                  /\ Count(run[p], "create_bucket") = 0
                  /\ ~(run[p].st = "failed" /\ run[p].step = "bucket")
            /\ run[p].head \notin {"none", "ok", "404", "NoSuchBucket"} =>
                  /\ Count(run[p], "create_bucket") = 0
                  /\ run[p].st = "failed"
                  /\ run[p].exc = "ClientError"
                  /\ run[p].code = run[p].head
                  /\ run[p].calls = <<"head_bucket">>

C17_Witness ==
    /\ script = "airflow"
    /\ run[1].bucket_name \in s3.foreign
    /\ run[1].head = "403"
    /\ run[1].st = "failed" /\ run[1].code = "403"
    /\ run[2].head = "403"

\* C18 as stated: when overlapping runs call ensure_bucket for a bucket name that
\* nobody else owns, no run fails in ensure_bucket unless the control plane
\* rejects a call for a reason of its own, and at most one bucket of that name
\* exists.
C18_Original ==
    (script = "airflow" /\ mode = "conc" /\ s3.foreign = {}) =>
        /\ \A p \in Procs :
              (run[p].st = "failed" /\ run[p].step = "bucket") => run[p].injected
        /\ Cardinality(s3.mine) <= 1

\* the calls run r issued after its last get_instance_profile
AfterLastPoll(r) ==
    { r.calls[i] : i \in { j \in DOMAIN r.calls :
                             \A k \in DOMAIN r.calls :
                                 r.calls[k] = "get_instance_profile" => k < j } }

\* C19: a wait_for_instance_profile that returned did so with the profile's ARN
\* at its first successful poll, which is one of the first `attempts` polls and
\* follows one sleep per earlier poll, and neither polled nor slept afterwards;
\* a poll the control plane rejects with another error than NoSuchEntity ends
\* the wait with that error, the poll being the run's last call.
C19_PollerSuccess ==
    \A p \in Procs :
        /\ run[p].profile_arn # <<>> =>
              /\ run[p].profile_arn = ArnOf(ProfileName(script))
              /\ ProfileName(script) \in iam.visible
              /\ Count(run[p], "get_instance_profile") >= 1
              /\ Count(run[p], "get_instance_profile") <= args.attempts
              /\ Count(run[p], "sleep") = Count(run[p], "get_instance_profile") - 1
              /\ AfterLastPoll(run[p]) \subseteq {"associate_iam_instance_profile"}
              /\ ~(run[p].st = "failed" /\ run[p].step = "wait")
        /\ (run[p].injected /\ Count(run[p], "get_instance_profile") >= 1
                /\ Count(run[p], "associate_iam_instance_profile") = 0) =>
              /\ run[p].st = "failed"
              /\ run[p].exc = "ClientError"
              /\ run[p].code = "InternalError"
              /\ LastCall(run[p]) = "get_instance_profile"
              /\ run[p].profile_arn = <<>>

C19_Witness ==
    /\ args.attempts = MaxAttempts
    /\ run[1].st = "ok"
    /\ run[1].profile_arn = ArnOf(ProfileName(script))
    /\ Count(run[1], "get_instance_profile") = 2
    /\ Count(run[1], "sleep") = 1

\* run p takes a step of the duplicate path of ensure_security_group: the
\* create_security_group call that is answered with the duplicate error, or the
\* lookup that follows it
ReusePathStep(p) ==
    /\ run[p].st = "running"
    /\ run'[p] # run[p]
    /\ \/ run[p].pc = "create_security_group" /\ run'[p].pc = "describe_security_groups"
       \/ run[p].pc = "describe_security_groups" /\ run'[p].st # "killed"

\* C20: no step of the duplicate path of ensure_security_group changes anything
\* in the control plane (the groups with their ingress rules included) or on
\* disk, and a run that reused a group has issued exactly one
\* create_security_group, one describe_security_groups and no
\* authorize_security_group_ingress.
C20_ReuseFrame ==
    /\ [][\A p \in Procs :
            ReusePathStep(p) => (ec2' = ec2 /\ s3' = s3 /\ iam' = iam /\ keyFile' = keyFile)]_vars
    /\ [](script \in SGScripts =>
            \A p \in Procs :
                run[p].sgPath = "reused" =>
                    /\ Count(run[p], "authorize_security_group_ingress") = 0
                    /\ Count(run[p], "create_security_group") = 1
                    /\ Count(run[p], "describe_security_groups") = 1)

\* a run reused a group without ingress rules and launched its instance with it;
\* the group still has no rules
C20_Witness ==
    /\ script \in SGScripts
    /\ run[1].st = "ok" /\ run[1].sgPath = "reused"
    /\ run[1].req.sg = 100
    /\ \E g \in ec2.groups : g.id = 100 /\ g.ingress = {}

\* run p takes the create_key_pair call and is told that the key pair exists
KeyDuplicateStep(p) ==
    /\ run[p].st = "running" /\ run[p].pc = "create_key_pair"
    /\ run'[p] # run[p]
    /\ run'[p].st = "running"
    /\ run'[p].material = 0

\* C21: a create_key_pair that is told the key pair exists leaves the file at
\* key_path as it is (absent or present, content and mode), changes nothing in
\* the control plane, and the run is at the step that follows create_key_pair;
\* a run that obtained no key material is never at the write or the chmod.
C21_KeyDuplicateFrame ==
    /\ [][\A p \in Procs :
            KeyDuplicateStep(p) =>
                /\ keyFile' = keyFile
                /\ ec2' = ec2
                /\ run'[p].pc = AfterKey(script)]_vars
    /\ [](\A p \in Procs :
            run[p].material = 0 => run[p].pc \notin {"key_write", "key_chmod"})

\* the key pair was there but the key file was not: the run went through to the
\* end and there is still no file
C21_Witness ==
    /\ script \in KeyScripts
    /\ run[1].st = "ok"
    /\ Count(run[1], "create_key_pair") = 1
    /\ run[1].material = 0
    /\ keyFile = NoFile

\* C22 as stated: in every state, the states between write_text and chmod and
\* the state an interruption leaves there included, a file at key_path that
\* holds key material has mode 0600.
C22_Original ==
    script \in KeyScripts =>
        ((keyFile.exists /\ keyFile.content # 0) => keyFile.mode = "0600")

\* the group ensure_security_group returned to run r has the intended rules
HasIntendedRules(r) ==
    \E g \in ec2.groups : g.id = r.sg_id /\ IntendedPorts(script) \subseteq g.ingress

TaggedPublic(vpc) == { sn \in ec2.subnets : sn.vpc = vpc /\ sn.tier = "public" }

\* run r is a run of create_vpc.py that completed and whose VPC is the one
\* create_instance.py is run in
BuiltVpc(r) == r.cmd = "vpc" /\ r.st = "ok" /\ r.net.vpc_id = VpcArg

\* C24: the VPC of a completed run of create_vpc.py has exactly one subnet
\* tagged Tier=public, its subnet_1, and a security group named pf1-public-sg; a
\* run of create_instance.py in that VPC then fails only when the control plane
\* rejects a call for a reason of its own, and its launch request names that
\* subnet and that group.  No VPC ever has two subnets tagged Tier=public, so a
\* find_public_subnet that fails after a run of create_vpc.py that stopped early
\* found none.
C24_VpcThenInstance ==
    /\ \A v \in ec2.vpcs : Cardinality(TaggedPublic(v.id)) <= 1
    /\ \A p \in Procs :
        /\ (run[p].cmd = "vpc" /\ run[p].st = "ok") =>
              /\ TaggedPublic(run[p].net.vpc_id) =
                    { sn \in ec2.subnets : sn.id = run[p].net.subnet_1_id }
              /\ Cardinality(TaggedPublic(run[p].net.vpc_id)) = 1
              /\ \E g \in GroupsNamed("pf1-public-sg", run[p].net.vpc_id) :
                    g.id = run[p].net.public_sg_id
        /\ \A q \in Procs :
              (BuiltVpc(run[p]) /\ run[q].cmd = "inst") =>
                  /\ run[q].st = "failed" => run[q].injected
                  /\ run[q].req # NoReq =>
                        /\ run[q].req.subnet = <<"subnet", run[p].net.subnet_1_id>>
                        /\ run[q].req.sg = run[p].net.public_sg_id
        /\ (run[p].cmd = "inst" /\ run[p].st = "failed" /\ run[p].step = "subnet"
                /\ ~run[p].injected) =>
              /\ run[p].exc = "ValueError"
              /\ PublicSubnets(VpcArg) = {}

C24_Witness ==
    /\ BuiltVpc(run[1])
    /\ run[2].cmd = "inst" /\ run[2].st = "ok"
    /\ run[2].req.subnet = <<"subnet", run[1].net.subnet_1_id>>
    /\ run[2].req.sg = run[1].net.public_sg_id
    /\ Count(run[2], "describe_subnets") = 1

\* the scripts with an IAM routine
IAMScripts == {"assign", "airflow"}

\* C25 as stated: whenever an IAM routine has returned a profile name, whatever
\* the control plane held before, that instance profile has the role role_name
\* attached and the role carries the inline policy <role_name>-s3-access for
\* the run's bucket.
C25_Original ==
    script \in IAMScripts =>
        \A p \in Procs :
            run[p].profile_name # "" =>
                /\ [profile |-> run[p].profile_name, role |-> RoleName(script)] \in iam.attached
                /\ \E q \in iam.policies :
                      /\ q.role = RoleName(script)
                      /\ q.name = PolicyName(script)
                      /\ q.bucket = run[p].bucket_name

====
